---- MODULE Spec2Model ----
(***************************************************************************)
(* Favorites consistency layer of the PureSkin backend.                    *)
(*                                                                         *)
(* The persistent store is the Favorite collection (models/Favorite.js).   *)
(* Every HTTP request is handled independently; a handler is cut into one  *)
(* action per store operation it awaits (findOne / save / findById /       *)
(* deleteOne), so that concurrent requests interleave exactly at the       *)
(* awaits of the code.  The synchronous code that follows an await (the    *)
(* test of its result, the construction of the document, the response) is  *)
(* part of the action of the store operation it follows.                   *)
(*                                                                         *)
(* pending holds the handlers suspended at an await; resp is the response  *)
(* sent by the step just taken (NoResponse when the step sent none).       *)
(***************************************************************************)
EXTENDS Integers, Sequences, FiniteSets, Bags, TLC

\* ---------------------------------------------------------------- bounds
MaxReqs == 2   \* handlers suspended at an await at once
MaxIds  == 3   \* documents ever inserted
MaxTime == 3   \* last instant of the clock

\* the ObjectIds a client can name in DELETE /api/favorites/:id: those of
\* the documents ever stored and of documents not stored yet
Ids == 1..MaxIds

\* an absent body field / undefined / null
None   == 0
NoName == ""

\* the registered users whose token protect has resolved into req.user
Users == {1, 2}

\* values a client can put in the request body
BodyProductIds   == {None, 1}
BodyProductNames == {"a"}
BodyPrices       == {None}

VARIABLES
  favorites,   \* the Favorite collection: a set of documents
  nextId,      \* ObjectId generator: the next _id to be stored
  now,         \* the server clock (Date.now)
  pending,     \* bag of the requests whose handler is suspended at an await
  resp,        \* the response sent by the last step, with its request
  users,       \* the User collection: the ids of the registered users
  auth,        \* what protect did with the request of the last step
  derived,     \* the virtuals read from a Favorite document last
  client,      \* the favorites component mounted in the browser
  inflight,    \* the requests of the browser that are in flight
  remote,      \* the favorites held by the store the browser talks to
  session      \* AuthProvider: localStorage token, user, loading

\* the state of the browser and of the last document read
clientVars == <<derived, client, inflight, remote, session>>

\* the state of the backend
serverVars == <<favorites, nextId, now, pending, resp, users, auth>>

vars == <<favorites, nextId, now, pending, resp, users, auth,
          derived, client, inflight, remote, session>>

\* ------------------------------------------------------------ the schema
\* new Favorite({...}) : _id, the fields the controllers set, the default of
\* addedAt (Date.now at construction) and the createdAt of timestamps:true
\* (set by the pre-save hook).
Favorite(id, userId, productId, productName, price, addedAt, createdAt) ==
  [id |-> id, userId |-> userId, productId |-> productId,
   productName |-> productName, price |-> price,
   addedAt |-> addedAt, createdAt |-> createdAt]

\* schema validation run by save(): required paths and price min: 0
Validates(doc) ==
  /\ doc.userId # None
  /\ doc.productId # None
  /\ doc.productName # NoName
  /\ doc.price >= 0

\* (mutation: the unique index is not declared)
UniqueIndexViolation_noIndex(the_favorites, doc) == FALSE

\* favoriteSchema.index({ userId: 1, productId: 1 }, { unique: true })
UniqueIndexViolation(the_favorites, doc) ==
  \E f \in the_favorites : f.userId = doc.userId /\ f.productId = doc.productId

\* new mongoose.Types.ObjectId().toString(): a key no client key equals
GenProductId(n) == 0 - n

\* -------------------------------------------------- requests, responses
\* a request as the handler sees it: req.user.id (or req.userId), req.body,
\* req.params.id; pc is the await the handler is suspended at
Request(op, user, product_id, product_name, price, id, pc) ==
  [op |-> op, user |-> user, product_id |-> product_id,
   product_name |-> product_name, price |-> price, id |-> id, pc |-> pc]

NoRequest == Request("none", None, None, NoName, None, None, "none")

NoResponse ==
  [request |-> NoRequest, status |-> None, msg |-> "", alreadyExists |-> FALSE,
   data |-> <<>>]

\* the server accepts a new request
Accepting == BagCardinality(pending) < MaxReqs

\* the handler of q suspends at its next store operation, sending nothing
Await(q) ==
  /\ pending' = pending (+) SetToBag({q})
  /\ resp' = NoResponse

\* the store operation q was waiting for completes
Resume(q) == pending (-) SetToBag({q})

\* res.status(status).json(...) ends the request: the message of the body
\* (msg / message, accents dropped), its alreadyExists flag and its data
Respond(q, status, msg, flag, data) ==
  resp' = [request |-> q, status |-> status, msg |-> msg,
           alreadyExists |-> flag, data |-> data]

\* The analysis router mounts its favorites handlers without any middleware
\* and nothing in the application assigns req.userId: it is undefined.
RouteUserId == None

\* a number, or the string toFixed(1) gives, in tenths
Number(tenths) == [string |-> FALSE, tenths |-> tenths]

\* no document has been read
NoDerived ==
  [read |-> FALSE, price |-> None, originalPrice |-> None, savings |-> 0,
   savingsPercentage |-> Number(0)]

\* no favorites component is mounted.  favorites is its useState list (the
\* product names), event what its last step was, confirmed the list the
\* answers received so far add up to (the list last loaded, changed by
\* every toggle that succeeded)
NoClient ==
  [component |-> "none", favorites |-> {}, event |-> "none",
   confirmed |-> {}]

\* the response interceptor of api has handled nothing in the step
NoIntercept == [handled |-> FALSE, status |-> None, rejected |-> FALSE]

\* AuthProvider before it mounts: useState(null), useState(true), and an
\* empty localStorage.  token is localStorage's "token", redirect whether
\* window.location.href was assigned, intercepted what the response
\* interceptor did in the step, expected the session the answers received so
\* far add up to ("in" after a login or register that succeeded, "out"
\* after a logout)
NoSession ==
  [token |-> None, user |-> None, loading |-> TRUE, mounted |-> FALSE,
   redirect |-> FALSE, intercepted |-> NoIntercept, expected |-> "none"]

\* protect has not run for the request of the step (or the step is none)
NoAuth ==
  [kind |-> "none", id |-> None, next |-> FALSE, user |-> None,
   responses |-> 0]

\* the server starts on an empty collection, at any instant, every user
\* registered
Init ==
  /\ favorites = {}
  /\ nextId = 1
  /\ now \in 0..MaxTime
  /\ pending = EmptyBag
  /\ resp = NoResponse
  /\ users = Users
  /\ auth = NoAuth
  /\ derived = NoDerived
  /\ client = NoClient
  /\ inflight = {}
  /\ remote = {}
  /\ session = NoSession

\* a step of the backend: the browser is not part of it
Backend(A) == A /\ UNCHANGED clientVars

\* a step of a handler whose req.user is given: the User collection is not
\* touched and protect is not part of the step
Resolved(A) == Backend(A /\ auth' = NoAuth /\ UNCHANGED users)

\* the clock advances on its own
Tick ==
  /\ now < MaxTime
  /\ now' = now + 1
  /\ resp' = NoResponse
  /\ UNCHANGED <<favorites, nextId, pending>>

\* ------------------------------------------------- POST /api/favorites
\* Favorite.findOne({ userId, productName: product_name }) and the test of
\* its result
ExistingByName(the_favorites, userId, product_name) ==
  \E f \in the_favorites : f.userId = userId /\ f.productName = product_name

addFavorite_findOne(u, product_id, product_name, price) ==
  /\ Accepting
  /\ LET q == Request("addFavorite", u, product_id, product_name, price, None,
                      "save")
     IN IF ExistingByName(favorites, u, product_name)
        THEN /\ Respond(q, 400, "Ce produit est deja dans vos favoris !",
                        FALSE, <<>>)
             /\ UNCHANGED pending
        ELSE Await(q)
  /\ UNCHANGED <<favorites, nextId, now>>

\* the document addFavorite builds once the pre-check found nothing
NewFavorite(q, id, addedAt, createdAt) ==
  Favorite(id, q.user,
           IF q.product_id # None THEN q.product_id ELSE GenProductId(id),
           IF q.product_name # NoName THEN q.product_name ELSE "Nom inconnu",
           IF q.price # None THEN q.price ELSE 0,
           addedAt, createdAt)

\* ------------------------------------------- POST /api/analysis/favorites
ExistingByProductId(the_favorites, userId, productId) ==
  \E f \in the_favorites : f.userId = userId /\ f.productId = productId

addToFavorites_findOne(product_id, product_name, price) ==
  /\ Accepting
  /\ LET q == Request("addToFavorites", RouteUserId, product_id, product_name,
                      price, None, "save")
     IN IF q.user = None
        THEN /\ Respond(q, 401, "Connectez-vous", FALSE, <<>>)
             /\ UNCHANGED pending
        ELSE IF ExistingByProductId(favorites, q.user, product_id)
             THEN /\ Respond(q, 200, "Deja favori", TRUE, <<>>)
                  /\ UNCHANGED pending
             ELSE Await(q)
  /\ UNCHANGED <<favorites, nextId, now>>

\* the document addToFavorites builds: the body fields as they are,
\* price: parseFloat(price) || 0
NewAnalysisFavorite(q, id, addedAt, createdAt) ==
  Favorite(id, q.user, q.product_id, q.product_name,
           IF q.price # None THEN q.price ELSE 0, addedAt, createdAt)

\* status answered when save() throws: addFavorite maps err.code 11000 to
\* 400, addToFavorites answers 500 for every error
SaveErrorStatus(op, duplicateKey) ==
  IF op = "addFavorite" /\ duplicateKey THEN 400 ELSE 500

SaveErrorMsg(op, duplicateKey) ==
  IF op = "addFavorite"
  THEN IF duplicateKey THEN "Produit deja en favoris" ELSE "Erreur serveur"
  ELSE "Erreur favoris"

\* message of the 201 answer: addFavorite sends the saved document alone
SavedMsg(op) == IF op = "addFavorite" THEN "" ELSE "Ajoute aux favoris"

\* await newFavorite.save() / await favorite.save(), and the response.
\* The document is constructed (addedAt) and saved (createdAt) in the same
\* turn of the event loop; the clock may advance between the two reads.
favorite_save(q) ==
  /\ BagIn(q, pending)
  /\ q.pc = "save"
  /\ nextId <= MaxIds
  /\ pending' = Resume(q)
  /\ \E createdAt \in {now, now + 1} :
       /\ createdAt <= MaxTime
       /\ now' = createdAt
       /\ LET doc == IF q.op = "addFavorite"
                     THEN NewFavorite(q, nextId, now, createdAt)
                     ELSE NewAnalysisFavorite(q, nextId, now, createdAt)
          IN IF ~Validates(doc)
             THEN /\ Respond(q, SaveErrorStatus(q.op, FALSE),
                             SaveErrorMsg(q.op, FALSE), FALSE, <<>>)
                  /\ UNCHANGED <<favorites, nextId>>
             ELSE IF UniqueIndexViolation(favorites, doc)
             THEN /\ Respond(q, SaveErrorStatus(q.op, TRUE),
                             SaveErrorMsg(q.op, TRUE), FALSE, <<>>)
                  /\ UNCHANGED <<favorites, nextId>>
             ELSE /\ favorites' = favorites \cup {doc}
                  /\ nextId' = nextId + 1
                  /\ Respond(q, 201, SavedMsg(q.op), FALSE, <<doc>>)

\* --------------------------------------------------- GET /api/favorites
\* (mutation: the filter names a path the schema does not have and is dropped)
FindByUser_unscoped(the_favorites, userId) == the_favorites

\* Favorite.find({ userId }): the documents of one owner
FindByUser(the_favorites, userId) == {f \in the_favorites : f.userId = userId}

\* the sequences that list every document of S once
Orderings(S) ==
  {s \in [1..Cardinality(S) -> S] : \A i, j \in DOMAIN s : i # j => s[i] # s[j]}

\* .sort({ createdAt: -1 }): most recent first; the order of documents with
\* equal createdAt is whatever the store returns
SortByCreatedAtDesc(S) ==
  {s \in Orderings(S) :
     \A i, j \in DOMAIN s : i < j => s[i].createdAt >= s[j].createdAt}

getMyFavorites(u) ==
  /\ Accepting
  /\ \E data \in SortByCreatedAtDesc(FindByUser(favorites, u)) :
       Respond(Request("getMyFavorites", u, None, NoName, None, None, "none"),
               200, "", FALSE, data)
  /\ UNCHANGED <<favorites, nextId, now, pending>>

\* -------------------------------------------- DELETE /api/favorites/:id
\* Favorite.findById(req.params.id)
FindById(the_favorites, id) == {f \in the_favorites : f.id = id}

\* (mutation: the ownership test is left out)
NotOwner_skipped(favorite, user) == FALSE

\* (mutation: === written for !==)
NotOwner_inverted(favorite, user) == favorite.userId = user

\* the ownership test: favorite.userId.toString() !== req.user.id
NotOwner(favorite, user) == favorite.userId # user

\* (mutation: deleteMany({ userId }) written for deleteOne)
DeleteOne_ofOwner(the_favorites, id) ==
  {f \in the_favorites : \A g \in the_favorites : g.id = id => f.userId # g.userId}

\* (mutation: the deletion is not awaited and never reaches the store)
DeleteOne_lost(the_favorites, id) == the_favorites

\* favorite.deleteOne(): removes the document with this _id, if it is
\* still there
DeleteOne(the_favorites, id) == {f \in the_favorites : f.id # id}

deleteFavorite_findById(u, id) ==
  /\ Accepting
  /\ LET q == Request("deleteFavorite", u, None, NoName, None, id, "deleteOne")
         found == FindById(favorites, id)
     IN IF found = {}
        THEN /\ Respond(q, 404, "Favori non trouve", FALSE, <<>>)
             /\ UNCHANGED pending
        ELSE IF \E favorite \in found : NotOwner(favorite, u)
             THEN /\ Respond(q, 401, "Non autorise", FALSE, <<>>)
                  /\ UNCHANGED pending
             ELSE Await(q)
  /\ UNCHANGED <<favorites, nextId, now>>

\* await favorite.deleteOne() and the answer
deleteFavorite_deleteOne(q) ==
  /\ BagIn(q, pending)
  /\ q.pc = "deleteOne"
  /\ pending' = Resume(q)
  /\ favorites' = DeleteOne(favorites, q.id)
  /\ Respond(q, 200, "Favori supprime", FALSE, <<>>)
  /\ UNCHANGED <<nextId, now>>

\* ------------------------------ DELETE /api/analysis/favorites/:productId
\* Favorite.findOneAndDelete({ userId, productId }): at most one document
removeFromFavorites(product_id) ==
  /\ Accepting
  /\ LET q == Request("removeFromFavorites", RouteUserId, product_id, NoName,
                      None, None, "none")
     IN IF q.user = None
        THEN /\ Respond(q, 401, "Non autorise", FALSE, <<>>)
             /\ UNCHANGED favorites
        ELSE /\ favorites' = {f \in favorites :
                                ~(f.userId = q.user /\ f.productId = product_id)}
             /\ Respond(q, 200, "Retire des favoris", FALSE, <<>>)
  /\ UNCHANGED <<nextId, now, pending>>

\* ---------------------------------------------- GET /api/analysis/favorites
\* .sort({ addedAt: -1 })
SortByAddedAtDesc(S) ==
  {s \in Orderings(S) :
     \A i, j \in DOMAIN s : i < j => s[i].addedAt >= s[j].addedAt}

getFavorites ==
  /\ Accepting
  /\ LET q == Request("getFavorites", RouteUserId, None, NoName, None, None,
                      "none")
     IN IF q.user = None
        THEN Respond(q, 401, "Connectez-vous", FALSE, <<>>)
        ELSE \E data \in SortByAddedAtDesc(FindByUser(favorites, q.user)) :
               Respond(q, 200, "", FALSE, data)
  /\ UNCHANGED <<favorites, nextId, now, pending>>

\* ------------------------------------------------------- specifications
\* Spec: every favorites operation of both routers, by any user, all within
\* one instant of the clock.
InitOneInstant ==
  /\ now = MaxTime
  /\ Init

Next ==
  \/ \E u \in Users, product_id \in BodyProductIds,
        product_name \in BodyProductNames, price \in BodyPrices :
       Resolved(addFavorite_findOne(u, product_id, product_name, price))
  \/ \E product_id \in BodyProductIds,
        product_name \in BodyProductNames, price \in BodyPrices :
       Resolved(addToFavorites_findOne(product_id, product_name, price))
  \/ \E q \in BagToSet(pending) : Resolved(favorite_save(q))
  \/ \E u \in Users : Resolved(getMyFavorites(u))
  \/ \E u \in Users, id \in Ids : Resolved(deleteFavorite_findById(u, id))
  \/ \E q \in BagToSet(pending) : Resolved(deleteFavorite_deleteOne(q))
  \/ \E product_id \in BodyProductIds : Resolved(removeFromFavorites(product_id))
  \/ Resolved(getFavorites)

Spec == InitOneInstant /\ [][Next]_vars

\* SpecClock: one user adds, lists and removes favorites of several names
\* while the clock runs.
ClockUsers == {1}
ClockNames == {"a", "b", "c"}

InitClock ==
  /\ now = 0
  /\ Init

NextClock ==
  \/ Resolved(Tick)
  \/ \E u \in ClockUsers, product_name \in ClockNames :
       Resolved(addFavorite_findOne(u, None, product_name, None))
  \/ \E q \in BagToSet(pending) : Resolved(favorite_save(q))
  \/ \E u \in ClockUsers : Resolved(getMyFavorites(u))
  \/ \E u \in ClockUsers, id \in Ids : Resolved(deleteFavorite_findById(u, id))
  \/ \E q \in BagToSet(pending) : Resolved(deleteFavorite_deleteOne(q))

SpecClock == InitClock /\ [][NextClock]_vars

\* ================================================ the identity verifier
\* The Authorization header of a request, by what protect makes of it:
\*   "absent"     no header
\*   "notBearer"  a header that does not start with 'Bearer'
\*   "bearerOnly" 'Bearer' with nothing after the space: split(' ')[1] is
\*                undefined or empty
\*   "badToken"   'Bearer <t>' where jwt.verify(t) throws (forged, expired);
\*                id is the id the forged payload names
\*   "token"      'Bearer <t>' where jwt.verify(t) gives { id }
Credential(kind, id) == [kind |-> kind, id |-> id]

BadKinds == {"absent", "notBearer", "bearerOnly", "badToken"}

\* (mutation: req.user is built from the token, the collection not read)
FindUser_fromToken(the_users, id) == id

\* User.findById(id): the document, or null
FindUser(the_users, id) == IF id \in the_users THEN id ELSE None

\* (mutation: the token is decoded, its signature not verified)
Protect_decodeOnly(cred, the_users) ==
  [kind |-> cred.kind, id |-> cred.id,
   next |-> cred.kind \in {"token", "badToken"},
   user |-> IF cred.kind \in {"token", "badToken"}
            THEN FindUser(the_users, cred.id) ELSE None,
   responses |-> IF cred.kind \in {"token", "badToken"} THEN 0 ELSE 1]

\* protect: next is whether next() is called, user the req.user it leaves,
\* responses the number of times it calls res.status(401).json
Protect(cred, the_users) ==
  [kind |-> cred.kind, id |-> cred.id,
   next |-> cred.kind = "token",
   user |-> IF cred.kind = "token" THEN FindUser(the_users, cred.id)
            ELSE None,
   responses |-> CASE cred.kind = "token" -> 0
                   [] cred.kind = "bearerOnly" -> 2
                   [] OTHER -> 1]

\* the body of the 401 protect sends (first)
ProtectMsg(kind) ==
  IF kind \in {"bearerOnly", "badToken"} THEN "Non autorise, token invalide"
  ELSE "Non autorise, aucun token"

\* protect answers the request itself: no handler runs
protect_401(v) ==
  /\ Respond(Request("protect", None, None, NoName, None, None, "none"),
             401, ProtectMsg(v.kind), FALSE, <<>>)
  /\ UNCHANGED <<favorites, nextId, now, pending>>

\* a handler whose req.user is null throws at req.user.id inside its try
NullUser(op, msg) ==
  /\ Respond(Request(op, None, None, NoName, None, None, "none"), 500, msg,
             FALSE, <<>>)
  /\ UNCHANGED <<favorites, nextId, now, pending>>

\* router.route('/').post(protect, addFavorite)
protect_addFavorite(cred, product_id, product_name, price) ==
  /\ Accepting
  /\ auth' = Protect(cred, users)
  /\ UNCHANGED users
  /\ IF ~auth'.next THEN protect_401(auth')
     ELSE IF auth'.user = None THEN NullUser("addFavorite", "Erreur serveur")
     ELSE addFavorite_findOne(auth'.user, product_id, product_name, price)

\* router.route('/').get(protect, getMyFavorites)
protect_getMyFavorites(cred) ==
  /\ Accepting
  /\ auth' = Protect(cred, users)
  /\ UNCHANGED users
  /\ IF ~auth'.next THEN protect_401(auth')
     ELSE IF auth'.user = None
     THEN NullUser("getMyFavorites",
                   "Erreur serveur lors du chargement des favoris")
     ELSE getMyFavorites(auth'.user)

\* router.route('/:id').delete(protect, deleteFavorite): with a null
\* req.user the handler still looks the Favorite up, and throws only when
\* it exists
protect_deleteFavorite(cred, id) ==
  /\ Accepting
  /\ auth' = Protect(cred, users)
  /\ UNCHANGED users
  /\ IF ~auth'.next THEN protect_401(auth')
     ELSE IF auth'.user = None
     THEN /\ IF FindById(favorites, id) = {}
             THEN Respond(Request("deleteFavorite", None, None, NoName, None,
                                  id, "none"),
                          404, "Favori non trouve", FALSE, <<>>)
             ELSE Respond(Request("deleteFavorite", None, None, NoName, None,
                                  id, "none"),
                          500, "Erreur serveur", FALSE, <<>>)
          /\ UNCHANGED <<favorites, nextId, now, pending>>
     ELSE deleteFavorite_findById(auth'.user, id)

\* router.delete('/profile', protect, deleteUser): the handler suspends at
\* User.findById(req.user.id)
protect_deleteUser(cred) ==
  /\ Accepting
  /\ auth' = Protect(cred, users)
  /\ UNCHANGED users
  /\ IF ~auth'.next THEN protect_401(auth')
     ELSE IF auth'.user = None THEN NullUser("deleteUser", "Erreur serveur")
     ELSE /\ Await(Request("deleteUser", auth'.user, None, NoName, None, None,
                           "User.findById"))
          /\ UNCHANGED <<favorites, nextId, now>>

\* const user = await User.findById(req.user.id) and the test of its result
deleteUser_findById(q) ==
  /\ BagIn(q, pending)
  /\ q.op = "deleteUser" /\ q.pc = "User.findById"
  /\ auth' = NoAuth
  /\ IF FindUser(users, q.user) = None
     THEN /\ pending' = Resume(q)
          /\ Respond(q, 404, "Utilisateur non trouve", FALSE, <<>>)
     ELSE /\ pending' = Resume(q) (+) SetToBag({[q EXCEPT !.pc = "user.deleteOne"]})
          /\ resp' = NoResponse
  /\ UNCHANGED <<favorites, nextId, now, users>>

\* (mutation: the Favorites of the user are deleted with the account)
deleteUser_deleteOne_cascade(q) ==
  /\ BagIn(q, pending)
  /\ q.op = "deleteUser" /\ q.pc = "user.deleteOne"
  /\ auth' = NoAuth
  /\ pending' = Resume(q)
  /\ users' = users \ {q.user}
  /\ favorites' = {f \in favorites : f.userId # q.user}
  /\ Respond(q, 200, "Utilisateur supprime avec succes", FALSE, <<>>)
  /\ UNCHANGED <<nextId, now>>

\* await user.deleteOne(): the Favorites of the user stay
deleteUser_deleteOne(q) ==
  /\ BagIn(q, pending)
  /\ q.op = "deleteUser" /\ q.pc = "user.deleteOne"
  /\ auth' = NoAuth
  /\ pending' = Resume(q)
  /\ users' = users \ {q.user}
  /\ Respond(q, 200, "Utilisateur supprime avec succes", FALSE, <<>>)
  /\ UNCHANGED <<favorites, nextId, now>>

\* SpecAuth: the protected routes, called with every kind of credential of
\* one account, which its owner may delete.
AuthUsers == {1}
AuthCreds == {Credential(k, u) : k \in BadKinds \cup {"token"}, u \in AuthUsers}

NextAuth ==
  \/ \E cred \in AuthCreds, product_name \in BodyProductNames :
       Backend(protect_addFavorite(cred, None, product_name, None))
  \/ \E cred \in AuthCreds : Backend(protect_getMyFavorites(cred))
  \/ \E cred \in AuthCreds, id \in Ids : Backend(protect_deleteFavorite(cred, id))
  \/ \E cred \in AuthCreds : Backend(protect_deleteUser(cred))
  \/ \E q \in BagToSet(pending) : Backend(deleteUser_findById(q))
  \/ \E q \in BagToSet(pending) : Backend(deleteUser_deleteOne(q))
  \/ \E q \in BagToSet(pending) : Resolved(favorite_save(q))
  \/ \E q \in BagToSet(pending) : Resolved(deleteFavorite_deleteOne(q))

SpecAuth == InitOneInstant /\ [][NextAuth]_vars

\* ==================================================== the analysis proxy
\* ---------------------------------------------------------------- texts
MaxLen   == 5   \* longest text a client sends
MaxCalls == 1   \* analysis requests waiting for the upstream at once

\* the characters of a text: a letter and a blank
Chars == {"a", " "}

Texts(n) == UNION {[1..k -> Chars] : k \in 0..n}

\* a body field that is undefined or '': both are falsy
Absent == <<>>

\* String.prototype.trim
RECURSIVE TrimStart(_)
TrimStart(t) ==
  IF t # <<>> /\ Head(t) = " " THEN TrimStart(Tail(t)) ELSE t

RECURSIVE TrimEnd(_)
TrimEnd(t) ==
  IF t # <<>> /\ t[Len(t)] = " " THEN TrimEnd(SubSeq(t, 1, Len(t) - 1)) ELSE t

Trim(t) == TrimEnd(TrimStart(t))

\* ingredients.trim().length < 5
MinIngredients == 5

\* limits: { fileSize: 10 * 1024 * 1024 } and the test of the controller
FileSizeLimit == 10 * 1024 * 1024

\* ------------------------------------------------- the upstream engine
\* What axios.post ends with: the 2xx response, or the error it rejects
\* with: its code, the status of error.response and its data.detail.
Outcome(kind, status, detail) ==
  [kind |-> kind, status |-> status, detail |-> detail]

NoDetail == ""

NoOutcome == Outcome("none", None, NoDetail)
UpstreamOk == Outcome("ok", 200, NoDetail)

\* connection refused, the timeout of axiosConfig, a non-2xx answer with or
\* without a detail
UpstreamFailures ==
  {Outcome("ECONNREFUSED", None, NoDetail),
   Outcome("ECONNABORTED", None, NoDetail)}
  \cup {Outcome("ERR_BAD_RESPONSE", st, d) :
          st \in {400, 503}, d \in {NoDetail, "detail"}}

Outcomes == {UpstreamOk} \cup UpstreamFailures

\* error.message of the error axios rejects with
AxiosMessage(o) ==
  CASE o.kind = "ECONNREFUSED" -> "connect ECONNREFUSED 127.0.0.1:8000"
    [] o.kind = "ECONNABORTED" -> "timeout of 30000ms exceeded"
    [] o.status = 400 -> "Request failed with status code 400"
    [] OTHER -> "Request failed with status code 503"

\* what a function of nlpService ends with: the value it returns, or the
\* error it throws (raw when it is the error of axios itself)
Returned(data) ==
  [throws |-> FALSE, raw |-> FALSE, message |-> "", data |-> <<data>>]

Thrown(message, raw) ==
  [throws |-> TRUE, raw |-> raw, message |-> message, data |-> <<>>]

\* response.data of a 2xx answer
ResponseData == "response.data"

findDupes(o) ==
  IF o.kind = "ok" THEN Returned(ResponseData)
  ELSE IF o.kind = "ECONNREFUSED"
  THEN Thrown("Le service d'analyse IA n'est pas disponible. Verifiez que le serveur Python est en cours d'execution.", FALSE)
  ELSE IF o.status = 503
  THEN Thrown("Le service d'analyse est en cours de chargement, veuillez reessayer dans quelques instants.", FALSE)
  ELSE Thrown("Erreur d'analyse: "
              \o (IF o.detail # NoDetail THEN o.detail ELSE AxiosMessage(o)),
              FALSE)

\* (mutation: the error of axios is thrown on)
analyzeReview_rethrow(o) ==
  IF o.kind = "ok" THEN Returned(ResponseData)
  ELSE Thrown(AxiosMessage(o), TRUE)

analyzeReview(o) ==
  IF o.kind = "ok" THEN Returned(ResponseData)
  ELSE Returned([sentiment |-> "Indisponible", confidence |-> 0,
                 error |-> AxiosMessage(o)])

scanImage(o) ==
  IF o.kind = "ok" THEN Returned(ResponseData)
  ELSE IF o.detail # NoDetail THEN Thrown(o.detail, FALSE)
  ELSE IF o.kind = "ECONNREFUSED" THEN Thrown("Service OCR non disponible", FALSE)
  ELSE Thrown("Erreur de traitement d'image: " \o AxiosMessage(o), FALSE)

analyzeQuality(o) ==
  IF o.kind = "ok" THEN Returned(ResponseData)
  ELSE Thrown(AxiosMessage(o), TRUE)

\* the function of nlpService each handler of the controller calls
AnalysisOps == {"getDupes", "getSentiment", "scanImage", "getQualityAnalysis"}

Service(op, o) ==
  CASE op = "getDupes" -> findDupes(o)
    [] op = "getSentiment" -> analyzeReview(o)
    [] op = "scanImage" -> scanImage(o)
    [] OTHER -> analyzeQuality(o)

\* ------------------------------------------------------- the controller
\* a request of the analysis router: the text of its body (ingredients,
\* text or product_name), the size of its file, the calls made to the
\* upstream on its behalf, the instant the last of them was sent and what
\* it ended with
AnalysisRequest(op, text, size, calls, upstream, pc) ==
  [op |-> op, text |-> text, size |-> size, calls |-> calls,
   upstream |-> upstream, pc |-> pc, sentAt |-> None]

\* the analysis router accepts a new request
Calling == BagCardinality(pending) < MaxCalls

\* the message of the 500 the catch block of a handler sends
CatchMessage(op, error) ==
  IF op = "getQualityAnalysis"
  THEN "Erreur lors de la recuperation de la note."
  ELSE error.message

\* the handler validated the body: it calls the service and suspends at
\* its axios.post
CallUpstream(q) ==
  Await([q EXCEPT !.calls = q.calls + 1, !.pc = "axios.post",
                  !.sentAt = now])

\* axios.post of q ends with o: the rest of the service function and of the
\* handler
UpstreamAnswers(q, o) ==
  /\ BagIn(q, pending)
  /\ q.pc = "axios.post"
  /\ pending' = Resume(q)
  /\ LET result == Service(q.op, o)
         done == [q EXCEPT !.upstream = o]
     IN IF result.throws
        THEN Respond(done, 500, CatchMessage(q.op, result), FALSE, <<>>)
        ELSE Respond(done, 200, "", FALSE, result.data)
  /\ UNCHANGED <<favorites, nextId, now, users, auth>>

\* answered without any call to the upstream
Reject(q, status, msg) ==
  /\ Respond(q, status, msg, FALSE, <<>>)
  /\ UNCHANGED pending

\* (mutation: the length is tested on the text as sent)
InvalidIngredients_noTrim(ingredients) ==
  ingredients = Absent \/ Len(ingredients) < MinIngredients

\* !ingredients || ingredients.trim().length < 5
InvalidIngredients(ingredients) ==
  ingredients = Absent \/ Len(Trim(ingredients)) < MinIngredients

\* POST /api/analysis/dupes
getDupes(ingredients) ==
  /\ Calling
  /\ LET q == AnalysisRequest("getDupes", ingredients, None, 0, NoOutcome,
                              "none")
     IN IF InvalidIngredients(ingredients)
        THEN Reject(q, 400, "Ingredients requis pour trouver des dupes.")
        ELSE CallUpstream(q)
  /\ UNCHANGED <<favorites, nextId, now, users, auth>>

getDupes_findDupes(q) ==
  /\ q.op = "getDupes"
  /\ \E o \in Outcomes : UpstreamAnswers(q, o)

\* POST /api/analysis/sentiment
getSentiment(text) ==
  /\ Calling
  /\ LET q == AnalysisRequest("getSentiment", text, None, 0, NoOutcome, "none")
     IN IF text = Absent THEN Reject(q, 400, "Texte requis")
        ELSE CallUpstream(q)
  /\ UNCHANGED <<favorites, nextId, now, users, auth>>

getSentiment_analyzeReview(q) ==
  /\ q.op = "getSentiment"
  /\ \E o \in Outcomes : UpstreamAnswers(q, o)

\* (mutation: no limit on the upload, no test in the controller)
TooLarge_noLimit(size) == FALSE

\* the file is larger than the limit of multer, which is also the limit the
\* controller tests
TooLarge(size) == size > FileSizeLimit

\* POST /api/analysis/scan: upload.single('file') ends the request with
\* the error of multer when the file exceeds limits.fileSize (Express
\* answers it with 500); otherwise scanImage runs. size is None when the
\* request carries no file.
upload_scanImage(size) ==
  /\ Calling
  /\ LET q == AnalysisRequest("scanImage", Absent, size, 0, NoOutcome, "none")
     IN IF TooLarge(size) THEN Reject(q, 500, "File too large")
        ELSE IF size = None THEN Reject(q, 400, "Aucune image fournie.")
        ELSE CallUpstream(q)
  /\ UNCHANGED <<favorites, nextId, now, users, auth>>

scanImage_scanImage(q) ==
  /\ q.op = "scanImage"
  /\ \E o \in Outcomes : UpstreamAnswers(q, o)

\* (mutation: the name is not required)
NoProductName_optional(product_name) == FALSE

\* !product_name
NoProductName(product_name) == product_name = Absent

\* POST /api/analysis/quality
getQualityAnalysis(product_name) ==
  /\ Calling
  /\ LET q == AnalysisRequest("getQualityAnalysis", product_name, None, 0,
                              NoOutcome, "none")
     IN IF NoProductName(product_name)
        THEN Reject(q, 400,
                    "Le nom du produit est requis pour trouver sa note.")
        ELSE CallUpstream(q)
  /\ UNCHANGED <<favorites, nextId, now, users, auth>>

getQualityAnalysis_analyzeQuality(q) ==
  /\ q.op = "getQualityAnalysis"
  /\ \E o \in Outcomes : UpstreamAnswers(q, o)

\* SpecProxy: the four proxy operations, called with texts of every length
\* up to MaxLen and files around the size limit, against an upstream that
\* answers or fails in every way.
BodyTexts == {Absent, <<"a">>}
FileSizes == {None, 1, FileSizeLimit, FileSizeLimit + 1}

NextProxy ==
  \/ \E ingredients \in Texts(MaxLen) : Backend(getDupes(ingredients))
  \/ \E q \in BagToSet(pending) : Backend(getDupes_findDupes(q))
  \/ \E text \in BodyTexts : Backend(getSentiment(text))
  \/ \E q \in BagToSet(pending) : Backend(getSentiment_analyzeReview(q))
  \/ \E size \in FileSizes : Backend(upload_scanImage(size))
  \/ \E q \in BagToSet(pending) : Backend(scanImage_scanImage(q))
  \/ \E product_name \in BodyTexts : Backend(getQualityAnalysis(product_name))
  \/ \E q \in BagToSet(pending) : Backend(getQualityAnalysis_analyzeQuality(q))

SpecProxy == InitOneInstant /\ [][NextProxy]_vars

\* ------------------------------------------------ the timeout of axios
\* axiosConfig: timeout: 30000 (30 seconds); the clock counts seconds
Timeout == 30

LastCall == 1   \* last second at which a request arrives

TimedOut == Outcome("ECONNABORTED", None, NoDetail)

\* (mutation: axios.post is given no timeout)
Deadline_none(q) == q.sentAt + (LastCall + Timeout + 1)

\* the instant the timer of the call of q fires
Deadline(q) == q.sentAt + Timeout

\* a second passes, unless the timer of a waiting call fires first
Elapse ==
  /\ now < LastCall + Timeout
  /\ \A q \in BagToSet(pending) : now < Deadline(q)
  /\ now' = now + 1
  /\ resp' = NoResponse
  /\ UNCHANGED <<favorites, nextId, pending, users, auth>>

\* the upstream answers, or the connection fails, before the timer fires
upstream_answers(q) ==
  /\ q.op \in AnalysisOps
  /\ now < Deadline(q)
  /\ \E o \in Outcomes \ {TimedOut} : UpstreamAnswers(q, o)

\* the timer fires: axios aborts the call and rejects with ECONNABORTED
axios_timeout(q) ==
  /\ q.op \in AnalysisOps
  /\ now >= Deadline(q)
  /\ UpstreamAnswers(q, TimedOut)

\* SpecTimeout: valid requests of the four operations arrive during the
\* first LastCall seconds; the upstream answers them, fails, or stays
\* silent.  Time passes and the timer of axios fires when due; nothing
\* makes the upstream answer.
ValidIngredients == [i \in 1..MinIngredients |-> "a"]

\* the calls that can wait for the upstream
TimedCalls ==
  {[q EXCEPT !.calls = 1, !.pc = "axios.post", !.sentAt = t] :
     q \in {AnalysisRequest("getDupes", ValidIngredients, None, 0, NoOutcome,
                            "none"),
            AnalysisRequest("getSentiment", <<"a">>, None, 0, NoOutcome,
                            "none"),
            AnalysisRequest("scanImage", Absent, 1, 0, NoOutcome, "none"),
            AnalysisRequest("getQualityAnalysis", <<"a">>, None, 0, NoOutcome,
                            "none")},
     t \in 0..LastCall}

NextTimeout ==
  \/ Backend(Elapse)
  \/ Backend(now <= LastCall /\ getDupes(ValidIngredients))
  \/ Backend(now <= LastCall /\ getSentiment(<<"a">>))
  \/ Backend(now <= LastCall /\ upload_scanImage(1))
  \/ Backend(now <= LastCall /\ getQualityAnalysis(<<"a">>))
  \/ \E q \in BagToSet(pending) : Backend(upstream_answers(q))
  \/ \E q \in BagToSet(pending) : Backend(axios_timeout(q))

SpecTimeout ==
  /\ InitClock
  /\ [][NextTimeout]_vars
  /\ WF_vars(Backend(Elapse))
  /\ \A q \in TimedCalls : WF_vars(Backend(axios_timeout(q)))

\* ============================================ the virtuals of the schema
MaxPrice == 10   \* largest price of a document

\* price and originalPrice: Number, min: 0; an absent originalPrice is
\* undefined, which the getters treat as they treat 0
Prices == 0..MaxPrice

\* n / d rounded to the nearest integer, halves away from zero
RoundDiv(n, d) ==
  IF n >= 0 THEN (2 * n + d) \div (2 * d)
  ELSE 0 - ((2 * (0 - n) + d) \div (2 * d))

\* (x / d * 100).toFixed(1): a string, one decimal
ToFixed1(x, d) == [string |-> TRUE, tenths |-> RoundDiv(x * 1000, d)]

\* favoriteSchema.virtual('savings')
savings(price, originalPrice) ==
  IF originalPrice # None /\ originalPrice > price
  THEN originalPrice - price
  ELSE 0

\* favoriteSchema.virtual('savingsPercentage')
savingsPercentage(price, originalPrice) ==
  IF originalPrice # None /\ originalPrice > 0
  THEN ToFixed1(originalPrice - price, originalPrice)
  ELSE Number(0)

\* the virtuals of a document with these prices are read
ReadVirtuals(price, originalPrice) ==
  /\ derived' = [read |-> TRUE, price |-> price,
                 originalPrice |-> originalPrice,
                 savings |-> savings(price, originalPrice),
                 savingsPercentage |-> savingsPercentage(price, originalPrice)]
  /\ UNCHANGED <<serverVars, client, inflight, remote, session>>

\* SpecVirtuals: the virtuals of documents of every pair of prices
NextVirtuals ==
  \E price \in Prices, originalPrice \in Prices :
    ReadVirtuals(price, originalPrice)

SpecVirtuals == InitOneInstant /\ [][NextVirtuals]_vars

\* ============================================ the favorites components
\* the products the page shows, by product_name
Products == {"p1", "p2"}

\* a request of a component that is in flight: getFavorites ("list"),
\* the add or remove of handleToggleFavorite ("toggle", wasFav is
\* isAlreadyFav, previous is previousFavorites), the remove of
\* handleRemoveFavorite ("remove")
Call(kind, product, wasFav, previous) ==
  [kind |-> kind, product |-> product, wasFav |-> wasFav,
   previous |-> previous]

ListCall == Call("list", "", FALSE, {})

\* the requests and answers of the session leave the favorites alone
FavoritesStep == UNCHANGED <<serverVars, derived, session>>

\* the initial load has returned: DupeFinder starts no other
Loaded == ListCall \notin inflight

\* a component mounts: its useEffect calls getFavorites
mount(component) ==
  /\ client.component = "none"
  /\ client' = [client EXCEPT !.component = component, !.event = "mounted"]
  /\ inflight' = inflight \cup {ListCall}
  /\ remote' \in SUBSET Products
  /\ FavoritesStep

\* getFavorites of aiService returns response.data, or [] when the request
\* fails; both components store what it returns
getFavorites_returns(ok) ==
  /\ ListCall \in inflight
  /\ inflight' = inflight \ {ListCall}
  /\ LET data == IF ok THEN remote ELSE {}
     IN client' = [client EXCEPT !.favorites = data, !.confirmed = data,
                                 !.event = "loaded"]
  /\ UNCHANGED remote
  /\ FavoritesStep

\* setFavorites(previousFavorites)
Rollback(the_favorites, c) == c.previous

\* DupeFinder.handleToggleFavorite up to its await: the optimistic update
handleToggleFavorite(product) ==
  /\ client.component = "DupeFinder"
  /\ \A c \in inflight : c.product # product
  /\ LET isAlreadyFav == product \in client.favorites
     IN /\ inflight' = inflight
                       \cup {Call("toggle", product, isAlreadyFav,
                                  client.favorites)}
        /\ client' = [client EXCEPT
                        !.favorites = IF isAlreadyFav THEN @ \ {product}
                                      ELSE @ \cup {product},
                        !.event = "toggled"]
  /\ UNCHANGED remote
  /\ FavoritesStep

\* the add or remove succeeded: only a toast
handleToggleFavorite_then(c) ==
  /\ c \in inflight /\ c.kind = "toggle"
  /\ inflight' = inflight \ {c}
  /\ remote' = IF c.wasFav THEN remote \ {c.product}
               ELSE remote \cup {c.product}
  /\ client' = [client EXCEPT
                  !.confirmed = IF c.wasFav THEN @ \ {c.product}
                                ELSE @ \cup {c.product},
                  !.event = "succeeded"]
  /\ FavoritesStep

\* the add or remove failed: the catch block of handleToggleFavorite
handleToggleFavorite_catch(c) ==
  /\ c \in inflight /\ c.kind = "toggle"
  /\ inflight' = inflight \ {c}
  /\ client' = [client EXCEPT !.favorites = Rollback(@, c),
                              !.event = "failed"]
  /\ UNCHANGED remote
  /\ FavoritesStep

\* FavoritesPage.handleRemoveFavorite up to its await
handleRemoveFavorite(productName) ==
  /\ client.component = "FavoritesPage"
  /\ productName \in client.favorites
  /\ \A c \in inflight : c.product # productName
  /\ inflight' = inflight
                 \cup {Call("remove", productName, TRUE, client.favorites)}
  /\ client' = [client EXCEPT !.favorites = @ \ {productName},
                              !.event = "toggled"]
  /\ UNCHANGED remote
  /\ FavoritesStep

handleRemoveFavorite_then(c) ==
  /\ c \in inflight /\ c.kind = "remove"
  /\ inflight' = inflight \ {c}
  /\ remote' = remote \ {c.product}
  /\ client' = [client EXCEPT !.confirmed = @ \ {c.product},
                              !.event = "succeeded"]
  /\ FavoritesStep

\* the remove failed: the catch block calls loadFavorites()
handleRemoveFavorite_catch(c) ==
  /\ c \in inflight /\ c.kind = "remove"
  /\ inflight' = (inflight \ {c}) \cup {ListCall}
  /\ client' = [client EXCEPT !.event = "failed"]
  /\ UNCHANGED remote
  /\ FavoritesStep

\* SpecFavorites: one of the two components mounts on any content of the
\* store; the user toggles and removes products once the list is loaded,
\* and every request succeeds or fails, in any order.
NextFavorites ==
  \/ \E component \in {"DupeFinder", "FavoritesPage"} : mount(component)
  \/ \E ok \in BOOLEAN : getFavorites_returns(ok)
  \/ \E product \in Products : Loaded /\ handleToggleFavorite(product)
  \/ \E c \in inflight : handleToggleFavorite_then(c)
  \/ \E c \in inflight : handleToggleFavorite_catch(c)
  \/ \E productName \in Products : Loaded /\ handleRemoveFavorite(productName)
  \/ \E c \in inflight : handleRemoveFavorite_then(c)
  \/ \E c \in inflight : handleRemoveFavorite_catch(c)

SpecFavorites == InitOneInstant /\ [][NextFavorites]_vars

\* ======================================= AuthProvider and the api client
\* the HTTP statuses the backend answers with; None is an error without
\* response (network error)
Statuses == {200, 401, 404, 500}

\* token 1 is the one found in localStorage when the page opens, token 2
\* the one a login or register returns; the user of /auth/me and of login
\* is 1.
\* a request sent through api: "sent" until its response is handled by the
\* response interceptor, then "resolved" or "rejected" until its caller's
\* continuation has run
ApiCall(kind, stage, status) ==
  [kind |-> kind, stage |-> stage, status |-> status]

Sent(kind) == ApiCall(kind, "sent", None)

\* no continuation and no navigation is due: the event loop is idle
Idle ==
  /\ ~session.redirect
  /\ \A c \in inflight : c.stage = "sent"

\* the requests and answers of the session leave the favorites alone
SessionStep == UNCHANGED <<serverVars, derived, client, remote>>

\* (mutation: the token is removed on every error)
Intercept_anyError(token, status) ==
  IF status # 200 THEN None ELSE token

\* localStorage's token after the response interceptor handled the response
Intercept(token, status) ==
  IF status # None /\ status = 401 THEN None ELSE token

\* AuthProvider mounts on a localStorage that holds stored: its useEffect
AuthProvider(stored) ==
  /\ ~session.mounted
  /\ session' = [session EXCEPT !.mounted = TRUE, !.token = stored,
                                !.loading = stored # None]
  /\ inflight' = IF stored # None THEN {Sent("me")} ELSE {}
  /\ SessionStep

\* a request is sent through api (login, register, or any other endpoint)
api_request(kind) ==
  /\ session.mounted /\ Idle
  /\ Sent(kind) \notin inflight
  /\ inflight' = inflight \cup {Sent(kind)}
  /\ session' = [session EXCEPT !.intercepted = NoIntercept]
  /\ SessionStep

login == api_request("login")

register == api_request("register")

\* a response, or an error without response, arrives for c: the response
\* interceptor
api_response(c, status) ==
  /\ Idle
  /\ c \in inflight /\ c.stage = "sent"
  /\ inflight' = (inflight \ {c})
                 \cup {ApiCall(c.kind,
                               IF status = 200 THEN "resolved"
                               ELSE "rejected", status)}
  /\ session' = [session EXCEPT
                   !.token = Intercept(@, status),
                   !.redirect = (status # None /\ status = 401),
                   !.intercepted = [handled |-> TRUE, status |-> status,
                                    rejected |-> status # 200],
                   !.expected = IF status # None /\ status = 401
                                   /\ c.kind # "me"
                                THEN "none" ELSE @]
  /\ SessionStep

\* the continuation of c runs
Settle(c, the_session) ==
  /\ c \in inflight /\ c.stage # "sent"
  /\ inflight' = inflight \ {c}
  /\ session' = [the_session EXCEPT !.intercepted = NoIntercept]
  /\ SessionStep

\* .then and .finally of the /auth/me of the mount effect
me_then(c) ==
  /\ c.kind = "me" /\ c.stage = "resolved"
  /\ Settle(c, [session EXCEPT !.user = 1, !.loading = FALSE])

\* .catch and .finally of the /auth/me of the mount effect
me_catch(c) ==
  /\ c.kind = "me" /\ c.stage = "rejected"
  /\ Settle(c, [session EXCEPT !.user = None, !.token = None,
                               !.loading = FALSE])

login_then(c) ==
  /\ c.kind = "login" /\ c.stage = "resolved"
  /\ Settle(c, [session EXCEPT !.user = 1, !.token = 2,
                               !.expected = "in"])

\* the catch block of login returns {success: false}
login_catch(c) ==
  /\ c.kind = "login" /\ c.stage = "rejected"
  /\ Settle(c, session)

register_then(c) ==
  /\ c.kind = "register" /\ c.stage = "resolved"
  /\ Settle(c, [session EXCEPT !.token = 2, !.user = 1,
                               !.expected = "in"])

register_catch(c) ==
  /\ c.kind = "register" /\ c.stage = "rejected"
  /\ Settle(c, session)

\* any other caller of api: no state of AuthProvider is involved
caller_settles(c) ==
  /\ c.kind = "deleteFavorite"
  /\ Settle(c, session)

logout ==
  /\ session.mounted /\ Idle
  /\ session.user # None
  /\ session' = [session EXCEPT !.user = None, !.token = None,
                                !.expected = "out",
                                !.intercepted = NoIntercept]
  /\ UNCHANGED inflight
  /\ SessionStep

\* the navigation to /login assigned by the interceptor: the page loads
\* anew, the requests in flight are dropped and AuthProvider mounts on a
\* localStorage without token
reload ==
  /\ session.redirect
  /\ \A c \in inflight : c.stage = "sent"
  /\ inflight' = {}
  /\ session' = [session EXCEPT !.user = None, !.loading = FALSE,
                                !.redirect = FALSE,
                                !.intercepted = NoIntercept]
  /\ SessionStep

\* SpecSession: the page is opened with or without a stored token; the user
\* logs in, registers, logs out and deletes favorites; every request gets
\* any status or no response, in any order.
NextSession ==
  \/ \E stored \in {None, 1} : AuthProvider(stored)
  \/ login
  \/ register
  \/ api_request("deleteFavorite")
  \/ \E c \in inflight, status \in Statuses \cup {None} :
       api_response(c, status)
  \/ \E c \in inflight : me_then(c)
  \/ \E c \in inflight : me_catch(c)
  \/ \E c \in inflight : login_then(c)
  \/ \E c \in inflight : login_catch(c)
  \/ \E c \in inflight : register_then(c)
  \/ \E c \in inflight : register_catch(c)
  \/ \E c \in inflight : caller_settles(c)
  \/ logout
  \/ reload

SpecSession == InitOneInstant /\ [][NextSession]_vars

\* ================================================================ claims
\* the step just taken answered a request of this handler
Answered(op) == resp.request.op = op

AddOps == {"addFavorite", "addToFavorites"}

\* the stored Favorites of one owner under one product key
RecordsOf(the_favorites, userId, productId) ==
  {f \in the_favorites : f.userId = userId /\ f.productId = productId}

\* the stored Favorites with one _id
RecordsWithId(the_favorites, id) == {f \in the_favorites : f.id = id}

CE_C2 ==
  (/\ resp.request.op \in AddOps
   /\ resp.request.user # None
   /\ resp.status # 201
   /\ \E f \in favorites :
        /\ f.userId = resp.request.user
        /\ \/ f.productId = resp.request.product_id
           \/ f.productName = resp.request.product_name)
  => (resp.status = 200 /\ resp.alreadyExists)

\* C3: for a given owner at most one Favorite exists per productName, in
\* every reachable state.
CE_C3 ==
  \A f, g \in favorites :
    (f.userId = g.userId /\ f.productName = g.productName) => f = g

\* C4: a remove by a verified identity that is not the owner of an existing
\* Favorite is answered 401 and leaves the whole store unchanged.
Thm_C4 ==
  [][(/\ resp'.request.op = "deleteFavorite"
      /\ resp'.request.user \in Users
      /\ \E f \in favorites :
           f.id = resp'.request.id /\ f.userId # resp'.request.user)
     => (resp'.status = 401 /\ favorites' = favorites)]_vars

W_C4 ==
  /\ Answered("deleteFavorite")
  /\ resp.status = 401
  /\ \E f \in favorites :
       f.id = resp.request.id /\ f.userId # resp.request.user

Thm_C6 ==
  (Answered("getMyFavorites") /\ resp.request.user \in Users)
  => /\ resp.status = 200
     /\ {resp.data[i] : i \in DOMAIN resp.data}
          = {f \in favorites : f.userId = resp.request.user}
     /\ \A i, j \in DOMAIN resp.data : resp.data[i] = resp.data[j] => i = j

\* a list answered with the caller's Favorites while another owner has some
W_C6 ==
  /\ Answered("getMyFavorites")
  /\ Len(resp.data) >= 1
  /\ \E f \in favorites : f.userId # resp.request.user

\* C7: list is ordered by addedAt descending: a Favorite added strictly
\* later than another comes before it.
CE_C7 ==
  Answered("getMyFavorites")
  => \A i, j \in DOMAIN resp.data :
       resp.data[i].addedAt > resp.data[j].addedAt => i < j

\* C8: a remove of a Favorite that was already removed (its id was stored
\* once and is no longer) is answered with success.
CE_C8 ==
  (/\ Answered("deleteFavorite")
   /\ resp.request.id < nextId
   /\ RecordsWithId(favorites, resp.request.id) = {})
  => resp.status = 200

\* C9: a remove, whatever its answer and on either router, changes at most
\* the one Favorite it names: every other record stays as it is and none
\* appears; a remove suspended at its deletion has changed nothing yet.
Thm_C9 ==
  [][/\ resp'.request.op = "deleteFavorite"
        => /\ favorites' \subseteq favorites
           /\ \A f \in favorites : f.id # resp'.request.id => f \in favorites'
     /\ resp'.request.op = "removeFromFavorites"
        => /\ favorites' \subseteq favorites
           /\ \A f \in favorites :
                ~(f.userId = resp'.request.user
                  /\ f.productId = resp'.request.product_id) => f \in favorites'
     /\ (\E q \in BagToSet(pending') :
           q.op = "deleteFavorite" /\ CopiesIn(q, pending') > CopiesIn(q, pending))
        => favorites' = favorites]_vars

\* a remove succeeded and left a record of the same owner and one of
\* another owner in the store
W_C9 ==
  /\ Answered("deleteFavorite")
  /\ resp.status = 200
  /\ \E f, g \in favorites :
       f.userId = resp.request.user /\ g.userId # resp.request.user

\* C10: with removes and adds of the same (owner, key) interleaved in any
\* way, every step leaves at most one record for the key; the records of a
\* key change only by the whole effect of one operation: a remove answered
\* 200 that takes away the record it named, or an add answered 201 that puts
\* in its complete record where there was none; and a remove answered 200
\* leaves no record with its id.
Thm_C10 ==
  [][/\ \A h \in favorites \cup favorites' :
          LET before == RecordsOf(favorites, h.userId, h.productId)
              after  == RecordsOf(favorites', h.userId, h.productId)
          IN /\ Cardinality(after) <= 1
             /\ after # before
                => \/ /\ after = {}
                      /\ resp'.request.op = "deleteFavorite"
                      /\ resp'.status = 200
                      /\ \A f \in before : f.id = resp'.request.id
                   \/ /\ before = {}
                      /\ resp'.request.op \in AddOps
                      /\ resp'.status = 201
                      /\ after = {resp'.data[1]}
                      /\ resp'.data[1].productName # NoName
                      /\ resp'.data[1].price >= 0
     /\ (resp'.request.op = "deleteFavorite" /\ resp'.status = 200)
        => RecordsWithId(favorites', resp'.request.id) = {}]_vars

\* an add was refused because the record of its key is stored, while a
\* remove of that very record is suspended at its deletion
W_C10 ==
  /\ Answered("addFavorite")
  /\ resp.status = 400
  /\ \E q \in BagToSet(pending), f \in favorites :
       /\ q.op = "deleteFavorite"
       /\ f.id = q.id
       /\ f.userId = resp.request.user
       /\ f.productId = resp.request.product_id

\* C11: a request whose bearer credential is missing, malformed or fails
\* verification is answered 401 by the verifier in a step that starts no
\* handler and leaves the stores as they were; a step that starts a
\* protected handler carries a verified token.
Thm_C11 ==
  [][/\ auth'.kind \in BadKinds
        => /\ resp'.status = 401
           /\ resp'.request.op = "protect"
           /\ pending' = pending
           /\ favorites' = favorites /\ nextId' = nextId /\ users' = users
     /\ (auth'.kind # "none" /\ resp'.request.op # "protect")
        => auth'.kind = "token"]_vars

W_C11 ==
  /\ auth.kind = "badToken"
  /\ resp.status = 401
  /\ favorites # {}

\* C12 (as stated): a request whose token verifies but whose principal no
\* longer exists is answered 401 by the verifier and is not passed to the
\* downstream handler.
CE_C12 ==
  (auth.kind = "token" /\ auth.id \notin users)
  => (resp.status = 401 /\ ~auth.next)

\* the step just taken answered an analysis request of this handler
AnsweredAnalysis(op) == resp.request.op = op

\* the analysis requests of this handler that wait for the upstream
Forwarded(op) == {q \in BagToSet(pending) : q.op = op}

\* the step just taken answered an analysis request whose upstream call
\* failed
UpstreamFailed ==
  /\ resp.request.op \in AnalysisOps
  /\ resp.request.upstream \in UpstreamFailures

\* C13: a scan whose file is larger than 10 MiB is answered with an error
\* status and no upstream call is made for it; a scan whose file is at most
\* 10 MiB is forwarded to the upstream (one call).
Thm_C13 ==
  /\ \A q \in Forwarded("scanImage") :
       q.size # None /\ q.size <= FileSizeLimit /\ q.calls = 1
  /\ AnsweredAnalysis("scanImage")
     => IF resp.request.size > FileSizeLimit
        THEN resp.status >= 400 /\ resp.request.calls = 0
        ELSE resp.request.size # None => resp.request.calls = 1

W_C13 ==
  /\ AnsweredAnalysis("scanImage")
  /\ resp.request.size = FileSizeLimit + 1
  /\ resp.status >= 400
  /\ resp.request.calls = 0

\* C14 (as stated): getDupes answers 400 without an upstream call when the
\* ingredients text is missing or has fewer than 5 characters, and forwards
\* it when it has 5 characters or more.
CE_C14 ==
  /\ \A q \in Forwarded("getDupes") : Len(q.text) >= MinIngredients
  /\ AnsweredAnalysis("getDupes")
     => IF Len(resp.request.text) < MinIngredients
        THEN resp.status = 400 /\ resp.request.calls = 0
        ELSE resp.request.calls = 1

\* C14 (amended): getDupes answers 400 without an upstream call when the
\* ingredients text is missing or has fewer than 5 characters once leading
\* and trailing blanks are removed, and forwards it otherwise.
Thm_C14 ==
  /\ \A q \in Forwarded("getDupes") : Len(Trim(q.text)) >= MinIngredients
  /\ AnsweredAnalysis("getDupes")
     => IF Len(Trim(resp.request.text)) < MinIngredients
        THEN resp.status = 400 /\ resp.request.calls = 0
        ELSE resp.request.calls = 1

W_C14 ==
  /\ AnsweredAnalysis("getDupes")
  /\ Len(resp.request.text) >= MinIngredients
  /\ resp.status = 400
  /\ resp.request.calls = 0

\* C15: getQualityAnalysis answers 400 without an upstream call when
\* product_name is absent, and makes exactly one upstream call when it is
\* present.
Thm_C15 ==
  /\ \A q \in Forwarded("getQualityAnalysis") :
       q.text # Absent /\ q.calls = 1
  /\ AnsweredAnalysis("getQualityAnalysis")
     => IF resp.request.text = Absent
        THEN resp.status = 400 /\ resp.request.calls = 0
        ELSE resp.request.calls = 1

W_C15 ==
  /\ AnsweredAnalysis("getQualityAnalysis")
  /\ resp.request.text # Absent
  /\ resp.request.calls = 1
  /\ resp.status = 200

TaxonomyStatus(o) ==
  IF o.kind = "ERR_BAD_RESPONSE" /\ o.status # 503 THEN 400 ELSE 503

\* C17 (as stated): an upstream failure of an analysis call (the degraded
\* answer of getSentiment aside) is answered 503, or 400 when the upstream
\* rejected the input; never 500.
CE_C17 ==
  (UpstreamFailed /\ ~AnsweredAnalysis("getSentiment"))
  => /\ resp.status = TaxonomyStatus(resp.request.upstream)
     /\ resp.status # 500

\* the failure kind a caller of nlpService can tell from what a service
\* function ends with
KindOf(result, o) ==
  CASE ~result.throws -> "none"
    [] result.raw -> "raw"
    [] result.message \in {"Service OCR non disponible", findDupes(Outcome("ECONNREFUSED", None, NoDetail)).message}
         -> "unavailable"
    [] result.message = findDupes(Outcome("ERR_BAD_RESPONSE", 503, NoDetail)).message
         -> "busy"
    [] o.detail # NoDetail
       /\ result.message \in {o.detail, "Erreur d'analyse: " \o o.detail}
         -> "rejected"
    [] OTHER -> "other"

\* C18 (as stated): the failure of an upstream call is converted to the
\* same failure kind by each of the four service functions, and none of
\* them ends with the raw error of the transport.
CE_C18 ==
  UpstreamFailed
  => LET o == resp.request.upstream
     IN /\ ~Service(resp.request.op, o).raw
        /\ \A other \in AnalysisOps :
             KindOf(Service(other, o), o)
               = KindOf(Service(resp.request.op, o), o)

\* C19 (as stated): when the upstream answers non-2xx with a detail, the
\* message of the answer to the client is that detail, unchanged, for every
\* proxy operation.
CE_C19 ==
  (UpstreamFailed /\ resp.request.upstream.detail # NoDetail)
  => resp.msg = resp.request.upstream.detail

\* C20 (as stated): the message of a 500 answer of a handler is the same
\* whatever the error the handler caught.
CE_C20 ==
  (resp.status = 500 /\ UpstreamFailed)
  => \A o \in UpstreamFailures :
       Service(resp.request.op, o).throws
       => CatchMessage(resp.request.op, Service(resp.request.op, o)) = resp.msg

\* the step just taken answered a call like q
AnsweredCall(q) ==
  /\ resp.request.op = q.op
  /\ resp.request.sentAt = q.sentAt
  /\ resp.request.pc = q.pc
  /\ resp.request.upstream # NoOutcome

Thm_C24 ==
  [][(users' # users \/ resp'.request.op = "deleteUser")
     => /\ favorites' = favorites
        /\ nextId' = nextId
        /\ users' # users
           => users' = users \ {resp'.request.user}]_vars

W_C24 ==
  /\ resp.request.op = "deleteUser"
  /\ resp.status = 200
  /\ resp.request.user \notin users
  /\ \E f \in favorites : f.userId = resp.request.user

\* C26 (as stated): for every request protect either calls next() once and
\* sends nothing, or sends one 401 and does not call next().
CE_C26 ==
  auth.kind # "none"
  => \/ auth.next /\ auth.responses = 0
     \/ ~auth.next /\ auth.responses = 1

\* C27: a request that carries the still valid token of a deleted user
\* leaves the stores as they were, starts no store operation, and is
\* answered without any Favorite data, whichever of add, list and remove it
\* is.
Thm_C27 ==
  [][(auth'.kind = "token" /\ auth'.id \notin users)
     => /\ favorites' = favorites
        /\ nextId' = nextId
        /\ pending' = pending
        /\ resp'.data = <<>>
        /\ resp'.status >= 400]_vars

W_C27 ==
  /\ auth.kind = "token"
  /\ auth.id \notin users
  /\ resp.request.op = "getMyFavorites"
  /\ resp.status = 500
  /\ \E f \in favorites : f.userId = auth.id

\* C25 (as stated): when originalPrice is present and greater than price,
\* savings = originalPrice - price and savingsPercentage is
\* savings / originalPrice * 100 (to one decimal); otherwise both are 0;
\* neither is ever negative.
CE_C25 ==
  derived.read
  => /\ IF derived.originalPrice # None /\ derived.originalPrice > derived.price
        THEN /\ derived.savings = derived.originalPrice - derived.price
             /\ derived.savingsPercentage.tenths
                  = RoundDiv(derived.savings * 1000, derived.originalPrice)
        ELSE /\ derived.savings = 0
             /\ derived.savingsPercentage.tenths = 0
     /\ derived.savings >= 0
     /\ derived.savingsPercentage.tenths >= 0

\* C23 (as stated): when an add or a remove of a favorites component has
\* just failed, the component has a reload of its list (getFavorites) in
\* flight.
CE_C23 ==
  client.event = "failed" => ListCall \in inflight

\* C28 (as stated): in DupeFinder, once no toggle is in flight, the local
\* list is the list loaded at mount changed by exactly the toggles that
\* succeeded.
CE_C28 ==
  (client.component = "DupeFinder" /\ inflight = {})
  => client.favorites = client.confirmed

\* C29 (as stated): whenever no auth request is in flight, AuthProvider
\* holds a user only if a token is stored, holds user and token when the
\* last thing the user did was a login or register that succeeded, and
\* holds no user when it was a logout.
CE_C29 ==
  (inflight = {} /\ ~session.redirect)
  => /\ session.user # None => session.token # None
     /\ session.expected = "in"
        => (session.user # None /\ session.token # None)
     /\ session.expected = "out" => session.user = None

\* C30: a step in which the response interceptor handles a response or an
\* error leaves localStorage without token when the status is 401 and
\* leaves the token as it was for every other status and for an error
\* without response; it rejects exactly the errors (every status but 200,
\* and no response).
Thm_C30 ==
  [][session'.intercepted.handled
     => /\ session'.token =
             IF session'.intercepted.status # None
                /\ session'.intercepted.status = 401
             THEN None ELSE session.token
        /\ session'.intercepted.rejected
             = (session'.intercepted.status # 200)]_vars

\* the interceptor handled the 401 of a DELETE /favorites/:id of a
\* logged-in user: the token is gone and the error is rejected to the caller
W_C30 ==
  /\ session.intercepted.handled
  /\ session.intercepted.status # None /\ session.intercepted.status = 401
  /\ session.intercepted.rejected
  /\ session.user # None /\ session.token = None
  /\ ApiCall("deleteFavorite", "rejected", 401) \in inflight

====
